---- MODULE Spec2Model ----
(***************************************************************************)
(* Model of the Twitter monitoring bot (src/index.js, v12.1, and the v13.1 *)
(* revision src/unnamed/part_000): the response cache, the fetch           *)
(* orchestrator with its retry policy, the persisted-document loader, and  *)
(* the check cycle with the chat handlers that share its state.            *)
(*                                                                         *)
(* JavaScript runs every handler to its next await without interruption,   *)
(* so each action below is one such run-to-completion step: it starts at   *)
(* the event that resumes the code (a timer, a chat message, a settled     *)
(* request) and ends at the next await or at the handler's return.         *)
(***************************************************************************)
EXTENDS Integers, Sequences, FiniteSets, TLC

Accounts == {"alice", "bob", "carol"}

\* The callers of checkFeeds: the startup timer, the main loop and the
\* 'Check Now' button. The model keeps at most one invocation per caller
\* in progress, so up to three overlap.
Callers == {"initial", "loop", "manual"}

\* An id the source could not recover (null / undefined in the code).
NoId == 0

Min(a, b) == IF a < b THEN a ELSE b
Max(a, b) == IF a > b THEN a ELSE b
Range(s) == {s[i] : i \in 1..Len(s)}

(***************************************************************************)
(* The upstream timelines. An item is {id, createdAt, media}; media is     *)
(* whether the media list is non-empty. Every createdAt is a number: the   *)
(* sources send dates that parse.                                          *)
(***************************************************************************)
Item(i, c, m) == [id |-> i, createdAt |-> c, media |-> m]

Timeline(u) ==
    CASE u = "alice" -> {Item(1, 20, FALSE), Item(2, 10, TRUE)}
      [] u = "bob"   -> {Item(3, 10, FALSE), Item(NoId, 5, FALSE)}
      [] OTHER       -> {Item(4, 10, TRUE)}

Ids == {i.id : i \in UNION {Timeline(u) : u \in Accounts}}

\* All sequences of distinct elements of S.
RECURSIVE Perms(_)
Perms(S) ==
    IF S = {} THEN {<<>>}
    ELSE UNION {{<<x>> \o p : p \in Perms(S \ {x})} : x \in S}

\* What one successful fetch may return: any part of the timeline in any order.
Feeds(u) == UNION {Perms(S) : S \in SUBSET Timeline(u)}

(***************************************************************************)
(* tweets.items.sort((a, b) => a.createdAt - b.createdAt): a stable sort,  *)
(* here insertion of each item after the last one not newer than it.       *)
(***************************************************************************)
RECURSIVE Insert(_, _)
Insert(sorted, x) ==
    IF sorted = <<>> THEN <<x>>
    ELSE IF sorted[Len(sorted)].createdAt - x.createdAt > 0
         THEN Append(Insert(SubSeq(sorted, 1, Len(sorted) - 1), x), sorted[Len(sorted)])
         ELSE Append(sorted, x)

\* The sort left out.
SortByCreatedAtOmitted(items) == items

RECURSIVE SortByCreatedAt(_)
SortByCreatedAt(items) ==
    IF items = <<>> THEN <<>>
    ELSE Insert(SortByCreatedAt(SubSeq(items, 1, Len(items) - 1)), items[Len(items)])

\* sentTweetIds is a Set: it keeps insertion order and holds no id twice.
SetAdd(set, id) == IF id \in Range(set) THEN set ELSE Append(set, id)

RECURSIVE SetAddAll(_, _)
SetAddAll(set, ids) ==
    IF ids = <<>> THEN set ELSE SetAddAll(SetAdd(set, Head(ids)), Tail(ids))

VARIABLES
    config,              \* MAX_CONCURRENT, MAX_RETRIES and CHECK_INTERVAL_MIN/MAX, read
                         \* from the environment at startup (src/index.js:20-28)
    usersToMonitor,      \* the tracked list (src/index.js:198)
    sentTweetIds,        \* DedupSet, in insertion order (src/index.js:188)
    userBootstrapState,  \* accounts whose bootstrap entry is true (src/index.js:197)
    activityCounter,     \* src/index.js:306
    userStates,          \* the chat's prompt state (src/index.js:404)
    runs,                \* the invocations of checkFeeds in progress
    adds,                \* add-account handlers awaiting their fetch
    timers,              \* whether the startup check's timer is pending, and the delay
                         \* of the main loop's pending timer, in ms
    disk,                \* the three persisted documents
    notified,            \* per id, the notifications delivered to the chat
    fetch,               \* one call of fetchTweets, source by source, or one call of
                         \* a source fetcher, request by request
    cache,               \* SmartCache: its version and its Map, in insertion order
    clock,               \* Date.now()
    lastSet,             \* the last set of the key watched, and whether it was evicted since
    got,                 \* what the last get of the key watched returned, until the next call
    startup              \* the persisted files as found and as loaded at startup

\* The state of the bot proper.
botVars == <<config, usersToMonitor, sentTweetIds, userBootstrapState, activityCounter,
             userStates, runs, adds, timers, disk, notified>>

\* The state the components modelled on their own keep.
partVars == <<fetch, cache, clock, lastSet, got, startup>>

vars == <<botVars, partVars>>

(***************************************************************************)
(* checkFeeds (src/index.js:308-383).                                      *)
(***************************************************************************)
NoRun == [active |-> FALSE]

\* One account's task of a batch, as it awaits fetchTweets (src/index.js:319-320).
TaskFetch ==
    [pc |-> "fetch", attempt |-> 0, tweets |-> <<>>, k |-> 0, isFirstRun |-> FALSE,
     userNewCount |-> 0, res |-> "none"]

\* batches.push(usersToMonitor.slice(i, i + MAX_CONCURRENT)) (src/index.js:313-316).
NumBatches(snap) == (Len(snap) + config.MAX_CONCURRENT - 1) \div config.MAX_CONCURRENT
Batch(snap, bi) ==
    SubSeq(snap, (bi - 1) * config.MAX_CONCURRENT + 1,
           Min(bi * config.MAX_CONCURRENT, Len(snap)))

\* batch.map(async (user) => ...): every task of the batch starts its fetch.
Launch(snap, bi) == [u \in Range(Batch(snap, bi)) |-> TaskFetch]

\* Array.from(sentTweetIds).slice(-2000) (src/index.js:374).
LastN(s, n) == IF Len(s) <= n THEN s ELSE SubSeq(s, Len(s) - n + 1, Len(s))

\* The 2000 of slice(-2000), scaled to the model's id universe.
MaxSavedIds == 3

Doc(v) == [exists |-> TRUE, doc |-> v]
NoDoc == [exists |-> FALSE, doc |-> <<>>]

\* "Save if changes" (src/index.js:372-376).
SaveAfterCycle(newCount, sent, boot, d) ==
    IF newCount > 0 \/ boot # {}
    THEN [d EXCEPT !.cache = Doc(LastN(sent, MaxSavedIds)), !.state = Doc(boot)]
    ELSE d

\* The loop's "continue" test (src/index.js:328): the first index from k on
\* whose item has an id that is not in the set, or Len + 1.
RECURSIVE Scan(_, _, _)
Scan(tweets, k, sent) ==
    IF k > Len(tweets) THEN k
    ELSE IF tweets[k].id = NoId \/ tweets[k].id \in Range(sent)
         THEN Scan(tweets, k + 1, sent)
         ELSE k

\* The ids the first-run branch adds, in loop order (src/index.js:328-331).
RECURSIVE BootstrapIds(_)
BootstrapIds(tweets) ==
    IF tweets = <<>> THEN <<>>
    ELSE IF Head(tweets).id = NoId THEN BootstrapIds(Tail(tweets))
         ELSE <<Head(tweets).id>> \o BootstrapIds(Tail(tweets))

\* The task from index k on, until it awaits a send or returns (src/index.js:327-366).
Resume(t, k, sent) ==
    LET j == Scan(t.tweets, k, sent) IN
    IF j > Len(t.tweets)
    THEN [t EXCEPT !.pc = "done", !.k = 0, !.res = "ok"]
    ELSE [t EXCEPT !.pc = IF t.tweets[j].media THEN "photo" ELSE "text", !.k = j]

\* Waiting for the first task of the batch only.
AnySettled(tasks) == \E u \in DOMAIN tasks : tasks[u].pc = "done"

\* await Promise.allSettled(fetchPromises) (src/index.js:369).
AllSettled(tasks) == \A u \in DOMAIN tasks : tasks[u].pc = "done"

\* What follows a step of run r that left it as run1: the batch is still
\* running, or Promise.allSettled resolves and the next batch starts, or the
\* last batch is over and the cycle saves and returns (src/index.js:369-383).
Settle(r, run1, sent1, boot1) ==
    IF ~AllSettled(run1.tasks)
    THEN /\ runs' = [runs EXCEPT ![r] = run1]
         /\ UNCHANGED disk
    ELSE IF run1.bi < NumBatches(run1.snap)
    THEN /\ runs' = [runs EXCEPT ![r] = [run1 EXCEPT !.bi = @ + 1,
                                                     !.tasks = Launch(run1.snap, run1.bi + 1)]]
         /\ UNCHANGED disk
    ELSE /\ runs' = [runs EXCEPT ![r] = NoRun]
         /\ disk' = SaveAfterCycle(run1.newCount, sent1, boot1, disk)

\* checkFeeds(manualTrigger), called by r, up to its first await
\* (src/index.js:308-320). The invocation's record also keeps the accounts
\* that had no bootstrap entry when it started (unseen0) and those whose
\* entry it has set itself (initialized, src/index.js:361-363).
StartRun(r, manual) ==
    /\ ~runs[r].active
    /\ IF usersToMonitor = <<>>
       THEN /\ disk' = SaveAfterCycle(0, sentTweetIds, userBootstrapState, disk)
            /\ UNCHANGED runs
       ELSE /\ runs' = [runs EXCEPT ![r] =
                          [active |-> TRUE, manual |-> manual, snap |-> usersToMonitor,
                           bi |-> 1, tasks |-> Launch(usersToMonitor, 1), newCount |-> 0,
                           unseen0 |-> Range(usersToMonitor) \ userBootstrapState,
                           initialized |-> {}]]
            /\ UNCHANGED disk

InTask(r, u, pc) ==
    /\ runs[r].active
    /\ u \in DOMAIN runs[r].tasks
    /\ runs[r].tasks[u].pc = pc

\* The failure escaping the task: the invocation is abandoned.
FetchAttemptFailsEscapes(r, u) ==
    /\ InTask(r, u, "fetch")
    /\ runs' = [runs EXCEPT ![r] = NoRun]
    /\ UNCHANGED <<config, usersToMonitor, sentTweetIds, userBootstrapState,
                   activityCounter, userStates, adds, timers, disk, notified>>
    /\ UNCHANGED partVars

\* One attempt of fetchTweets found every source absent (src/index.js:278-299):
\* it is retried, or after the last attempt fetchTweets returns null and the
\* task returns {user, error: 'Fetch failed'} (src/index.js:321).
FetchAttemptFails(r, u) ==
    /\ InTask(r, u, "fetch")
    /\ LET t == runs[r].tasks[u] IN
       IF t.attempt < config.MAX_RETRIES
       THEN /\ runs' = [runs EXCEPT ![r].tasks[u].attempt = @ + 1]
            /\ UNCHANGED disk
       ELSE Settle(r, [runs[r] EXCEPT !.tasks[u] =
                             [t EXCEPT !.pc = "done", !.attempt = 0, !.res = "failed"]],
                   sentTweetIds, userBootstrapState)
    /\ UNCHANGED <<config, usersToMonitor, sentTweetIds, userBootstrapState,
                   activityCounter, userStates, adds, timers, notified>>
    /\ UNCHANGED partVars

\* fetchTweets returned a result: the task sorts it and walks it until its
\* first send, or to its end (src/index.js:323-366).
FetchSucceeds(r, u, feed) ==
    /\ InTask(r, u, "fetch")
    /\ LET t0 == runs[r].tasks[u]
           isFirstRun == u \notin userBootstrapState
           t1 == [t0 EXCEPT !.attempt = 0, !.tweets = SortByCreatedAt(feed),
                            !.isFirstRun = isFirstRun]
       IN
       IF isFirstRun
       THEN LET sent1 == SetAddAll(sentTweetIds, BootstrapIds(t1.tweets))
                boot1 == userBootstrapState \cup {u}
            IN /\ sentTweetIds' = sent1
               /\ userBootstrapState' = boot1
               /\ Settle(r, [runs[r] EXCEPT !.tasks[u] = [t1 EXCEPT !.pc = "done", !.res = "ok"],
                                            !.initialized = @ \cup {u}],
                         sent1, boot1)
       ELSE /\ Settle(r, [runs[r] EXCEPT !.tasks[u] = Resume(t1, 1, sentTweetIds)],
                      sentTweetIds, userBootstrapState)
            /\ UNCHANGED <<sentTweetIds, userBootstrapState>>
    /\ UNCHANGED <<config, usersToMonitor, activityCounter, userStates, adds, timers,
                   notified>>
    /\ UNCHANGED partVars

\* The send of the current item was delivered: the lines after the await
\* (src/index.js:349-353), then the task waits out the pacing delay.
Delivered(r, u) ==
    LET t == runs[r].tasks[u]
        id == t.tweets[t.k].id
    IN /\ notified' = [notified EXCEPT ![id] = @ + 1]
       /\ sentTweetIds' = SetAdd(sentTweetIds, id)
       /\ activityCounter' = activityCounter + 1
       /\ runs' = [runs EXCEPT ![r].tasks[u].pc = "pace",
                               ![r].tasks[u].userNewCount = @ + 1,
                               ![r].newCount = @ + 1]
       /\ UNCHANGED <<config, usersToMonitor, userBootstrapState, userStates, adds,
                      timers, disk>>
       /\ UNCHANGED partVars

\* bot.sendPhoto resolved (src/index.js:344).
SendPhotoOk(r, u) ==
    /\ InTask(r, u, "photo")
    /\ Delivered(r, u)

\* bot.sendPhoto rejected: .catch falls back to bot.sendMessage (src/index.js:345).
SendPhotoFails(r, u) ==
    /\ InTask(r, u, "photo")
    /\ runs' = [runs EXCEPT ![r].tasks[u].pc = "text"]
    /\ UNCHANGED <<config, usersToMonitor, sentTweetIds, userBootstrapState,
                   activityCounter, userStates, adds, timers, disk, notified>>
    /\ UNCHANGED partVars

\* bot.sendMessage resolved, as the fallback or for an item without media
\* (src/index.js:345, 347).
SendTextOk(r, u) ==
    /\ InTask(r, u, "text")
    /\ Delivered(r, u)

\* The rejected send recorded as if it had been delivered.
SendTextFailsRecorded(r, u) ==
    /\ InTask(r, u, "text")
    /\ runs' = [runs EXCEPT ![r].tasks[u].pc = "pace"]
    /\ sentTweetIds' = SetAdd(sentTweetIds, runs[r].tasks[u].tweets[runs[r].tasks[u].k].id)
    /\ UNCHANGED <<config, usersToMonitor, userBootstrapState,
                   activityCounter, userStates, adds, timers, disk, notified>>
    /\ UNCHANGED partVars

\* bot.sendMessage rejected: the catch logs it and nothing is recorded
\* (src/index.js:354-356).
SendTextFails(r, u) ==
    /\ InTask(r, u, "text")
    /\ runs' = [runs EXCEPT ![r].tasks[u].pc = "pace"]
    /\ UNCHANGED <<config, usersToMonitor, sentTweetIds, userBootstrapState,
                   activityCounter, userStates, adds, timers, disk, notified>>
    /\ UNCHANGED partVars

\* The 500 ms pacing delay is over: the loop goes on (src/index.js:357, 327-366).
PaceDone(r, u) ==
    /\ InTask(r, u, "pace")
    /\ LET t == runs[r].tasks[u] IN
       Settle(r, [runs[r] EXCEPT !.tasks[u] = Resume(t, t.k + 1, sentTweetIds)],
              sentTweetIds, userBootstrapState)
    /\ UNCHANGED <<config, usersToMonitor, sentTweetIds, userBootstrapState,
                   activityCounter, userStates, adds, timers, notified>>
    /\ UNCHANGED partVars

(***************************************************************************)
(* The chat handlers (src/index.js:400-489).                               *)
(***************************************************************************)
\* The names an operator may type at the add prompt, after the handler has
\* cut the text to its first word and dropped one '@' (src/index.js:418).
Names == Accounts \cup {"bad-name", "name_of_16_chars"}

Chars(name) ==
    CASE name = "alice" -> <<"a", "l", "i", "c", "e">>
      [] name = "bob"   -> <<"b", "o", "b">>
      [] name = "carol" -> <<"c", "a", "r", "o", "l">>
      [] name = "bad-name" -> <<"b", "a", "d", "-", "n", "a", "m", "e">>
      [] OTHER -> <<"n", "a", "m", "e", "_", "o", "f", "_", "1", "6", "_", "c", "h", "a", "r", "s">>

WordChars ==
    {"a", "b", "c", "d", "e", "f", "g", "h", "i", "j", "k", "l", "m", "n", "o", "p", "q",
     "r", "s", "t", "u", "v", "w", "x", "y", "z", "A", "B", "C", "D", "E", "F", "G", "H",
     "I", "J", "K", "L", "M", "N", "O", "P", "Q", "R", "S", "T", "U", "V", "W", "X", "Y",
     "Z", "0", "1", "2", "3", "4", "5", "6", "7", "8", "9", "_"}

\* USERNAME_REGEX /^[a-zA-Z0-9_]{1,15}$/ (src/index.js:26, 400-402).
validateUsername(name) ==
    /\ Len(Chars(name)) >= 1
    /\ Len(Chars(name)) <= 15
    /\ \A i \in 1..Len(Chars(name)) : Chars(name)[i] \in WordChars

NoAdd == -1

\* usersToMonitor.splice(usersToMonitor.indexOf(user), 1) (src/index.js:479-481).
RECURSIVE Without(_, _)
Without(list, u) ==
    IF list = <<>> THEN <<>>
    ELSE IF Head(list) = u THEN Tail(list)
         ELSE <<Head(list)>> \o Without(Tail(list), u)

\* Only the first item recorded.
IdsOfFirst(items) == IF items = <<>> THEN <<>> ELSE <<Head(items).id>>

\* tweets.items.forEach(t => sentTweetIds.add(t.id)) (src/index.js:433): the
\* ids in the order of the result, a missing id among them.
RECURSIVE IdsOf(_)
IdsOf(items) ==
    IF items = <<>> THEN <<>> ELSE <<Head(items).id>> \o IdsOf(Tail(items))

\* The 'Add User' button outside the prompt (src/index.js:452-456).
AddUserButton ==
    /\ userStates = "none"
    /\ userStates' = "WAITING_FOR_ADD"
    /\ UNCHANGED <<config, usersToMonitor, sentTweetIds, userBootstrapState,
                   activityCounter, runs, adds, timers, disk, notified>>
    /\ UNCHANGED partVars

\* '/cancel' (src/index.js:411-415).
Cancel ==
    /\ userStates = "WAITING_FOR_ADD"
    /\ userStates' = "none"
    /\ UNCHANGED <<config, usersToMonitor, sentTweetIds, userBootstrapState,
                   activityCounter, runs, adds, timers, disk, notified>>
    /\ UNCHANGED partVars

\* A message at the add prompt, up to the handler's await of fetchTweets
\* (src/index.js:419-431, 439-443). At most one add handler per account
\* awaits its fetch at a time.
NameMessage(newUser) ==
    /\ userStates = "WAITING_FOR_ADD"
    /\ IF ~validateUsername(newUser)
       THEN UNCHANGED <<usersToMonitor, userStates, adds, disk>>
       ELSE IF newUser \notin Range(usersToMonitor)
       THEN /\ adds[newUser] = NoAdd
            /\ usersToMonitor' = Append(usersToMonitor, newUser)
            /\ disk' = [disk EXCEPT !.users = Doc(usersToMonitor')]
            /\ adds' = [adds EXCEPT ![newUser] = 0]
            /\ UNCHANGED userStates
       ELSE /\ userStates' = "none"
            /\ UNCHANGED <<usersToMonitor, adds, disk>>
    /\ UNCHANGED <<config, sentTweetIds, userBootstrapState, activityCounter, runs,
                   timers, notified>>
    /\ UNCHANGED partVars

\* The failed scan dropping the account's bootstrap entry.
AddFetchAttemptFailsResets(u) ==
    /\ adds[u] # NoAdd
    /\ adds' = [adds EXCEPT ![u] = NoAdd]
    /\ userStates' = "none"
    /\ userBootstrapState' = userBootstrapState \ {u}
    /\ UNCHANGED <<config, usersToMonitor, sentTweetIds, activityCounter, runs, timers,
                   disk, notified>>
    /\ UNCHANGED partVars

\* One attempt of the add handler's fetchTweets failed (src/index.js:431,
\* 278-299); after the last one the handler sees null and clears the prompt
\* (src/index.js:432, 442).
AddFetchAttemptFails(u) ==
    /\ adds[u] # NoAdd
    /\ IF adds[u] < config.MAX_RETRIES
       THEN /\ adds' = [adds EXCEPT ![u] = @ + 1]
            /\ UNCHANGED userStates
       ELSE /\ adds' = [adds EXCEPT ![u] = NoAdd]
            /\ userStates' = "none"
    /\ UNCHANGED <<config, usersToMonitor, sentTweetIds, userBootstrapState,
                   activityCounter, runs, timers, disk, notified>>
    /\ UNCHANGED partVars

\* The cut to the last MaxSavedIds ids made in memory as well.
AddFetchSucceedsTruncates(u, feed) ==
    /\ adds[u] # NoAdd
    /\ adds' = [adds EXCEPT ![u] = NoAdd]
    /\ userStates' = "none"
    /\ IF Len(feed) > 0
       THEN /\ sentTweetIds' = LastN(SetAddAll(sentTweetIds, IdsOf(feed)), MaxSavedIds)
            /\ userBootstrapState' = userBootstrapState \cup {u}
            /\ disk' = [disk EXCEPT !.cache = Doc(sentTweetIds'),
                                    !.state = Doc(userBootstrapState')]
       ELSE UNCHANGED <<sentTweetIds, userBootstrapState, disk>>
    /\ UNCHANGED <<config, usersToMonitor, activityCounter, runs, timers, notified>>
    /\ UNCHANGED partVars

\* The add handler's fetchTweets returned a result (src/index.js:432-442).
AddFetchSucceeds(u, feed) ==
    /\ adds[u] # NoAdd
    /\ adds' = [adds EXCEPT ![u] = NoAdd]
    /\ userStates' = "none"
    /\ IF Len(feed) > 0
       THEN /\ sentTweetIds' = SetAddAll(sentTweetIds, IdsOf(feed))
            /\ userBootstrapState' = userBootstrapState \cup {u}
            /\ disk' = [disk EXCEPT !.cache = Doc(LastN(sentTweetIds', MaxSavedIds)),
                                    !.state = Doc(userBootstrapState')]
       ELSE UNCHANGED <<sentTweetIds, userBootstrapState, disk>>
    /\ UNCHANGED <<config, usersToMonitor, activityCounter, runs, timers, notified>>
    /\ UNCHANGED partVars

\* 'Check Now' outside the prompt (src/index.js:446-448).
CheckNow ==
    /\ userStates = "none"
    /\ StartRun("manual", TRUE)
    /\ UNCHANGED <<config, usersToMonitor, sentTweetIds, userBootstrapState,
                   activityCounter, userStates, adds, timers, notified>>
    /\ UNCHANGED partVars

\* The callback query RM_<user> (src/index.js:476-489).
RemoveUser(user) ==
    /\ user \in Range(usersToMonitor)
    /\ usersToMonitor' = Without(usersToMonitor, user)
    /\ userBootstrapState' = userBootstrapState \ {user}
    /\ disk' = [disk EXCEPT !.users = Doc(usersToMonitor'), !.state = Doc(userBootstrapState')]
    /\ UNCHANGED <<config, sentTweetIds, activityCounter, userStates, runs, adds,
                   timers, notified>>
    /\ UNCHANGED partVars

(***************************************************************************)
(* Startup and the main loop (src/index.js:518-533).                       *)
(***************************************************************************)
\* setTimeout(() => checkFeeds(false), 3000) (src/index.js:522).
InitialCheck ==
    /\ timers.initial
    /\ timers' = [timers EXCEPT !.initial = FALSE]
    /\ StartRun("initial", FALSE)
    /\ UNCHANGED <<config, usersToMonitor, sentTweetIds, userBootstrapState,
                   activityCounter, userStates, adds, notified>>
    /\ UNCHANGED partVars

\* Math.random() (src/index.js:529): j of JitterSteps equal steps of [0, 1).
JitterSteps == 4

\* activityCounter > 5 (src/index.js:528): the 5, scaled to the
\* notifications the model's timelines allow.
ActivityThreshold == 1

\* const baseInterval, const interval (src/index.js:528-529). The intervals
\* configured are multiples of 1000 ms, so the jitter's division is exact.
baseInterval ==
    config.CHECK_INTERVAL_MIN + (IF activityCounter > ActivityThreshold THEN -10000 ELSE 0)
interval(j) ==
    Max(20000, baseInterval + (j * (config.CHECK_INTERVAL_MAX - baseInterval)) \div JitterSteps)

\* The decay left out.
DecayOmitted(counter) == counter

\* Math.max(0, activityCounter - 1) (src/index.js:530).
Decay(counter) == Max(0, counter - 1)

\* The main loop waiting for its check cycle before it runs again.
MainLoopAwaitsCycle ==
    /\ ~timers.initial
    /\ StartRun("loop", FALSE)
    /\ \E j \in 0..(JitterSteps - 1) : timers' = [timers EXCEPT !.main = interval(j)]
    /\ activityCounter' = Decay(activityCounter)
    /\ UNCHANGED <<config, usersToMonitor, sentTweetIds, userBootstrapState, userStates,
                   adds, notified>>
    /\ UNCHANGED partVars

\* mainLoop, first 8000 ms after startup (after the startup check, due at
\* 3000 ms) and then rescheduled by itself (src/index.js:525-533). It does
\* not await checkFeeds: it runs again whether or not the cycle it started
\* has returned, and the cycle it starts then is one more than the model
\* keeps for this caller.
MainLoop ==
    /\ ~timers.initial
    /\ IF runs["loop"].active
       THEN UNCHANGED <<runs, disk>>
       ELSE StartRun("loop", FALSE)
    /\ \E j \in 0..(JitterSteps - 1) : timers' = [timers EXCEPT !.main = interval(j)]
    /\ activityCounter' = Decay(activityCounter)
    /\ UNCHANGED <<config, usersToMonitor, sentTweetIds, userBootstrapState, userStates,
                   adds, notified>>
    /\ UNCHANGED partVars

\* The steps of the tasks of the check cycles in progress.
TaskStep ==
    \E r \in Callers, u \in Accounts :
        \/ FetchAttemptFails(r, u)
        \/ \E f \in Feeds(u) : FetchSucceeds(r, u, f)
        \/ SendPhotoOk(r, u)
        \/ SendPhotoFails(r, u)
        \/ SendTextOk(r, u)
        \/ SendTextFails(r, u)
        \/ PaceDone(r, u)

\* The bot after its start with the given configuration and loaded state
\* (src/index.js:188-201, 305-306, 404).
BotInit(cfg, users, sent, boot, docs) ==
    /\ config = cfg
    /\ usersToMonitor = users
    /\ sentTweetIds = sent
    /\ userBootstrapState = boot
    /\ activityCounter = 0
    /\ userStates = "none"
    /\ runs = [r \in Callers |-> NoRun]
    /\ adds = [u \in Accounts |-> NoAdd]
    /\ timers = [initial |-> TRUE, main |-> 8000]
    /\ disk = docs
    /\ notified = [i \in Ids |-> 0]

(***************************************************************************)
(* fetchTweets source by source (src/index.js:277-300 with p-retry,        *)
(* src/unnamed/part_000:178-236 with its own retry loop). A source fetcher *)
(* resolves with a result or with null; its mirrors and its cache lookup   *)
(* are inside that one outcome.                                            *)
(***************************************************************************)
Versions == {"v12", "v13"}

\* The fallback tried first.
SourcesReversed(ver) == IF ver = "v12" THEN <<"nitter", "sotwe">> ELSE <<"nitter">>

\* The source fetchers one attempt tries, in order (src/index.js:279-282,
\* src/unnamed/part_000:229).
Sources(ver) == IF ver = "v12" THEN <<"sotwe", "nitter">> ELSE <<"nitter">>

NoFetch ==
    [ver |-> "v12", user |-> "alice", pc |-> "idle", s |-> 0, i |-> 0, attempts |-> 0,
     calls |-> [sotwe |-> 0, nitter |-> 0], result |-> "none"]

\* Giving up one attempt early.
LastAttemptEarly(i, retries) == i + 1 >= retries

\* if (i === retries) throw err (src/unnamed/part_000:183). In v12.1 the
\* loop is the p-retry package's, whose retries option counts the attempts
\* after the first in the same way (src/index.js:287-288).
LastAttempt(i, retries) == i = retries

\* fetchTweets(username) up to the first source fetcher's await.
FetchTweetsCall(ver, u) ==
    /\ fetch.pc = "idle"
    /\ fetch' = [NoFetch EXCEPT !.ver = ver, !.user = u, !.pc = "source", !.s = 1,
                                !.attempts = 1,
                                !.calls[Sources(ver)[1]] = 1]
    /\ UNCHANGED <<cache, clock, lastSet, got, startup>>
    /\ UNCHANGED botVars

\* The source fetcher awaited resolved with a result: the attempt returns
\* it and so does fetchTweets (src/index.js:279-282, part_000:229-230).
SourceReturns ==
    /\ fetch.pc = "source"
    /\ fetch' = [fetch EXCEPT !.pc = "returned", !.result = Sources(fetch.ver)[fetch.s]]
    /\ UNCHANGED <<cache, clock, lastSet, got, startup>>
    /\ UNCHANGED botVars

\* The source fetcher awaited resolved with null: the next source is tried,
\* or the attempt throws and is retried after the backoff delay, or the last
\* attempt's error is caught and fetchTweets returns null
\* (src/index.js:279-299, part_000:178-235).
SourceFails ==
    /\ fetch.pc = "source"
    /\ IF fetch.s < Len(Sources(fetch.ver))
       THEN fetch' = [fetch EXCEPT !.s = @ + 1,
                                   !.calls[Sources(fetch.ver)[fetch.s + 1]] = @ + 1]
       ELSE IF LastAttempt(fetch.i, config.MAX_RETRIES)
       THEN fetch' = [fetch EXCEPT !.pc = "returned", !.result = "null"]
       ELSE fetch' = [fetch EXCEPT !.pc = "backoff"]
    /\ UNCHANGED <<cache, clock, lastSet, got, startup>>
    /\ UNCHANGED botVars

\* The backoff delay is over: the next attempt starts with the first source
\* (src/unnamed/part_000:185, 179-181).
BackoffDone ==
    /\ fetch.pc = "backoff"
    /\ fetch' = [fetch EXCEPT !.pc = "source", !.s = 1, !.i = @ + 1, !.attempts = @ + 1,
                              !.calls[Sources(fetch.ver)[1]] = @ + 1]
    /\ UNCHANGED <<cache, clock, lastSet, got, startup>>
    /\ UNCHANGED botVars

\* The caller has taken the result.
FetchTweetsDone ==
    /\ fetch.pc = "returned"
    /\ fetch' = NoFetch
    /\ UNCHANGED <<cache, clock, lastSet, got, startup>>
    /\ UNCHANGED botVars

(***************************************************************************)
(* SmartCache (src/index.js:46-87, src/unnamed/part_000:61-88). The Map is *)
(* the sequence of its entries in insertion order; Date.now() is a clock   *)
(* that never runs backwards.                                              *)
(***************************************************************************)
\* The capacity (1000), the number of entries the v12.1 eviction removes
\* (200) and CACHE_TTL (30000 ms), scaled down.
CacheCapacity == 4
EvictedAtOnce == 1
CacheTTL == 1

\* The last reading of the clock.
MaxTime == 2

Keys == 1..(CacheCapacity + 1)
Values == {"v", "w"}

\* The key whose writes and reads are followed; the other keys carry "v".
Watched == 1
ValuesFor(key) == IF key = Watched THEN Values ELSE {"v"}

NoWrite == [set |-> FALSE, t |-> 0, data |-> "v", evicted |-> FALSE]

KeysOf(entries) == {entries[i].key : i \in 1..Len(entries)}

\* The entry of a key that the Map holds.
EntryOf(entries, key) == entries[CHOOSE i \in 1..Len(entries) : entries[i].key = key]

\* Map.set: a key already present keeps its place, a new key goes last.
MapSet(entries, e) ==
    IF e.key \in KeysOf(entries)
    THEN [i \in 1..Len(entries) |-> IF entries[i].key = e.key THEN e ELSE entries[i]]
    ELSE Append(entries, e)

\* Map.delete of a set of keys.
MapDelete(entries, keys) ==
    LET Kept(e) == e.key \notin keys IN SelectSeq(entries, Kept)

\* Sorting the newest entries to the front.
RECURSIVE InsertByTimestampReversed(_, _)
InsertByTimestampReversed(sorted, x) ==
    IF sorted = <<>> THEN <<x>>
    ELSE IF x.timestamp - sorted[Len(sorted)].timestamp > 0
         THEN Append(InsertByTimestampReversed(SubSeq(sorted, 1, Len(sorted) - 1), x),
                     sorted[Len(sorted)])
         ELSE Append(sorted, x)

\* entries.sort((a, b) => a[1].timestamp - b[1].timestamp), a stable sort
\* (src/index.js:72-73, part_000:82).
RECURSIVE InsertByTimestamp(_, _)
InsertByTimestamp(sorted, x) ==
    IF sorted = <<>> THEN <<x>>
    ELSE IF sorted[Len(sorted)].timestamp - x.timestamp > 0
         THEN Append(InsertByTimestamp(SubSeq(sorted, 1, Len(sorted) - 1), x),
                     sorted[Len(sorted)])
         ELSE Append(sorted, x)

RECURSIVE SortByTimestamp(_)
SortByTimestamp(entries) ==
    IF entries = <<>> THEN <<>>
    ELSE InsertByTimestamp(SortByTimestamp(SubSeq(entries, 1, Len(entries) - 1)),
                           entries[Len(entries)])

\* .slice(0, 200) (src/index.js:74); .slice(0, Math.floor(this.cache.size * 0.2))
\* (part_000:82).
EvictCount(ver, size) == IF ver = "v12" THEN EvictedAtOnce ELSE size \div 5

\* An entry as old as the TTL counted as expired.
ExpiredAtTTL(now, timestamp) == now - timestamp >= CacheTTL

\* Date.now() - cached.timestamp > this.ttl (src/index.js:59, part_000:70).
Expired(now, timestamp) == now - timestamp > CacheTTL

NoGet == [valid |-> FALSE, key |-> 0, at |-> 0, hit |-> FALSE, data |-> "v",
          wrote |-> NoWrite]

\* What get(key) returns, kept for the key watched with the last set of it.
Got(key, hit, data) ==
    IF key = Watched
    THEN [valid |-> TRUE, key |-> key, at |-> clock, hit |-> hit, data |-> data,
          wrote |-> lastSet]
    ELSE NoGet

\* cache.set(key, data) (src/index.js:68-77, part_000:79-85). The calls
\* explored: a key new to the Map is the smallest one the Map does not hold,
\* and of the keys the Map holds only the watched one is written again (so
\* its entry can be newer than entries behind it in the Map).
CacheSet(key, data) ==
    /\ key \notin KeysOf(cache.entries) =>
          \A k \in Keys : k < key => k \in KeysOf(cache.entries)
    /\ key \in KeysOf(cache.entries) => key = Watched
    /\ LET entries1 == MapSet(cache.entries, [key |-> key, timestamp |-> clock, data |-> data])
           sorted == SortByTimestamp(entries1)
           oldest == IF Len(entries1) > CacheCapacity
                     THEN KeysOf(SubSeq(sorted, 1, Min(Len(sorted),
                                                       EvictCount(cache.ver, Len(entries1)))))
                     ELSE {}
       IN /\ cache' = [cache EXCEPT !.entries = MapDelete(entries1, oldest)]
          /\ lastSet' = [(IF key = Watched
                           THEN [set |-> TRUE, t |-> clock, data |-> data, evicted |-> FALSE]
                           ELSE lastSet)
                          EXCEPT !.evicted = @ \/ Watched \in oldest]
    /\ got' = NoGet
    /\ UNCHANGED <<clock, fetch, startup>>
    /\ UNCHANGED botVars

\* cache.get(key) (src/index.js:53-66, part_000:68-77).
CacheGet(key) ==
    /\ IF key \notin KeysOf(cache.entries)
       THEN /\ got' = Got(key, FALSE, "v")
            /\ UNCHANGED cache
       ELSE LET cached == EntryOf(cache.entries, key) IN
            IF Expired(clock, cached.timestamp)
            THEN /\ cache' = [cache EXCEPT !.entries = MapDelete(@, {key})]
                 /\ got' = Got(key, FALSE, "v")
            ELSE /\ got' = Got(key, TRUE, cached.data)
                 /\ UNCHANGED cache
    /\ UNCHANGED <<clock, lastSet, fetch, startup>>
    /\ UNCHANGED botVars

\* Time passes.
Tick ==
    /\ clock < MaxTime
    /\ clock' = clock + 1
    /\ got' = NoGet
    /\ UNCHANGED <<cache, lastSet, fetch, startup>>
    /\ UNCHANGED botVars

\* new SmartCache(config.CACHE_TTL) (src/index.js:87).
CacheInit(ver) ==
    /\ cache = [ver |-> ver, entries |-> <<>>]
    /\ clock = 0
    /\ lastSet = NoWrite
    /\ got = NoGet

(***************************************************************************)
(* loadJson and the loads at startup (src/index.js:144-177, 187-198,       *)
(* src/unnamed/part_000:138-157, 168-170). A JSON value is its kind and    *)
(* the number of its elements or keys; a file may be missing or hold text  *)
(* that does not parse.                                                    *)
(***************************************************************************)
Files == {"cache", "users", "state"}
JsonKinds == {"null", "boolean", "number", "string", "array", "object"}

\* The largest element count of a stored list or object.
MaxStored == 1

Json(kind, size) == [kind |-> kind, size |-> size]
JsonValues ==
    {Json(k, 0) : k \in JsonKinds} \cup {Json(k, n) : k \in {"array", "object"}, n \in 1..MaxStored}

StoredFiles ==
    {[exists |-> FALSE, parses |-> FALSE, value |-> Json("null", 0)],
     [exists |-> TRUE, parses |-> FALSE, value |-> Json("null", 0)]}
    \cup {[exists |-> TRUE, parses |-> TRUE, value |-> v] : v \in JsonValues}

\* typeof parsed.
TypeOf(v) == IF v.kind \in {"null", "array", "object"} THEN "object" ELSE v.kind

\* Array.isArray(parsed).
IsArray(v) == v.kind = "array"

\* The default loadJson falls back to (src/index.js:146-152, part_000:139);
\* every call passes [] or {} (src/index.js:189, 196-197).
FileDefault(file) == IF file = "state" THEN Json("object", 0) ELSE Json("array", 0)

\* typeof parsed !== 'object' is the state file's only test
\* (src/index.js:167, part_000:147).
StateShapeOk(v) == TypeOf(v) = "object"

\* loadJson(file, defaultValue) on a file as found.
loadJson(file, found) ==
    IF ~found.exists \/ ~found.parses THEN FileDefault(file)
    ELSE IF file \in {"cache", "users"} /\ ~IsArray(found.value) THEN FileDefault(file)
    ELSE IF file = "state" /\ ~StateShapeOk(found.value) THEN FileDefault(file)
    ELSE found.value

NotLoaded == Json("none", 0)

\* if (usersToMonitor.length === 0) usersToMonitor = <the list of the
\* environment> (src/index.js:199-201, part_000:171-173): where the tracked
\* list comes from, given the list loaded from the file.
TrackedFrom(loaded) == IF loaded.size = 0 THEN "configured" ELSE "persisted"

\* The three loads of the module's initialisation, which runs without a
\* break, and the choice of the tracked list (src/index.js:187-201,
\* part_000:168-173).
Startup ==
    /\ ~startup.loaded
    /\ startup' = [startup EXCEPT !.loaded = TRUE,
                                  !.values = [f \in Files |-> loadJson(f, startup.files[f])],
                                  !.tracked = TrackedFrom(loadJson("users", startup.files.users))]
    /\ UNCHANGED <<fetch, cache, clock, lastSet, got>>
    /\ UNCHANGED botVars

\* The process before its initialisation, with the files it will find.
StartupInit(files) ==
    startup = [files |-> files, loaded |-> FALSE, values |-> [f \in Files |-> NotLoaded],
               tracked |-> "none"]

NoFile == [exists |-> FALSE, parses |-> FALSE, value |-> Json("null", 0)]

\* The components modelled on their own, at rest.
PartsIdle ==
    /\ fetch = NoFetch
    /\ CacheInit("v12")
    /\ StartupInit([f \in Files |-> NoFile])

(***************************************************************************)
(* Spec: the check cycles of a bot started without persisted documents on  *)
(* the tracked list alice, bob, one account per batch, with the startup    *)
(* check and the main loop's checks overlapping freely.                    *)
(***************************************************************************)
NoDocs == [cache |-> NoDoc, state |-> NoDoc, users |-> NoDoc]

Init ==
    /\ BotInit([MAX_CONCURRENT |-> 1, MAX_RETRIES |-> 1,
               CHECK_INTERVAL_MIN |-> 40000, CHECK_INTERVAL_MAX |-> 40000], <<"alice", "bob">>, <<>>, {}, NoDocs)
    /\ PartsIdle

Next ==
    \/ InitialCheck
    \/ MainLoop
    \/ TaskStep

Spec == Init /\ [][Next]_vars

\* The task of account u in invocation r, before and after a step.
HasTask(r, u) == runs[r].active /\ u \in DOMAIN runs[r].tasks
HasTaskNext(r, u) == runs'[r].active /\ u \in DOMAIN runs'[r].tasks

\* An item the loop does not skip (src/index.js:328).
IsNew(item, sent) == item.id # NoId /\ item.id \notin Range(sent)

\* C1: no item id is delivered to the chat more than once, whatever the
\* order of the fetches and also while invocations of checkFeeds overlap.
NoDuplicateNotification ==
    \A i \in Ids : i # NoId => notified[i] <= 1

\* C2: for an account without a bootstrap entry when a check cycle starts,
\* that cycle delivers no notification for the account, and once the cycle's
\* fetch for it returns a result the account's bootstrap entry is true and,
\* when that result is the account's first, every id of it is in
\* sentTweetIds.
IdempotentBootstrap ==
    [][\A r \in Callers, u \in Accounts :
          (HasTask(r, u) /\ u \in runs[r].unseen0) =>
              /\ ~(SendPhotoOk(r, u) \/ SendTextOk(r, u))
              /\ InTask(r, u, "fetch") =>
                  \A f \in Feeds(u) :
                    FetchSucceeds(r, u, f) =>
                        /\ u \notin userBootstrapState =>
                              \A i \in 1..Len(f) :
                                  f[i].id # NoId => f[i].id \in Range(sentTweetIds')
                        /\ u \in userBootstrapState']_vars

\* C3: within one cycle, the sends for one ACTIVE account go out in ascending
\* createdAt order: when the send of an item starts, every item of the fetch
\* result with a smaller createdAt lies before it in the walk and, if it was
\* new, its own send has already started and settled.
ChronologicalEmission ==
    [][\A r \in Callers, u \in Accounts :
          (/\ HasTask(r, u)
           /\ runs[r].tasks[u].pc \in {"fetch", "pace"}
           /\ HasTaskNext(r, u)
           /\ runs'[r].tasks[u].pc \in {"photo", "text"}) =>
              LET t == runs'[r].tasks[u]
                  passed == IF runs[r].tasks[u].pc = "pace" THEN runs[r].tasks[u].k ELSE 0
              IN /\ t.k > passed
                 /\ runs[r].tasks[u].pc = "pace" => t.tweets = runs[r].tasks[u].tweets
                 /\ \A i \in 1..Len(t.tweets) :
                       t.tweets[i].createdAt < t.tweets[t.k].createdAt =>
                           /\ i < t.k
                           /\ i > passed => ~IsNew(t.tweets[i], sentTweetIds)]_vars

\* C3 happens: the second item of a walk is being sent after an older one
\* of the same walk was delivered.
ChronologicalEmissionWitness ==
    \E r \in Callers, u \in Accounts :
        /\ HasTask(r, u)
        /\ runs[r].tasks[u].pc \in {"photo", "text"}
        /\ runs[r].tasks[u].k = 2
        /\ runs[r].tasks[u].userNewCount = 1
        /\ runs[r].tasks[u].tweets[1].createdAt < runs[r].tasks[u].tweets[2].createdAt
        /\ notified[runs[r].tasks[u].tweets[1].id] >= 1

\* What a settled send leaves behind: the item delivered and recorded ...
SendRecorded(r, u) ==
    LET t == runs[r].tasks[u]
        id == t.tweets[t.k].id
    IN /\ notified' = [notified EXCEPT ![id] = @ + 1]
       /\ id \in Range(sentTweetIds')
       /\ runs'[r].tasks[u].userNewCount = t.userNewCount + 1
       /\ runs'[r].newCount = runs[r].newCount + 1

\* ... or nothing at all.
NothingRecorded(r, u) ==
    /\ UNCHANGED <<sentTweetIds, notified, userBootstrapState>>
    /\ runs'[r].tasks[u].userNewCount = runs[r].tasks[u].userNewCount
    /\ runs'[r].newCount = runs[r].newCount

\* C7: a failed photo send falls back to the text send of the same item; a
\* failed text send records nothing (the id stays out of sentTweetIds, no
\* notification is counted); a delivered send, fallback or not, counts one
\* notification and records the id; and no later walk of an ACTIVE account
\* skips an item whose id is not in sentTweetIds, so the item whose send
\* failed is sent again by the next cycle whose fetch contains it.
SendFailureSemantics ==
    [][\A r \in Callers, u \in Accounts :
          /\ (HasTask(r, u) /\ runs[r].tasks[u].pc = "photo") =>
                \/ SendRecorded(r, u) /\ runs'[r].tasks[u].pc = "pace"
                \/ /\ NothingRecorded(r, u)
                   /\ runs'[r].tasks[u].pc = "text"
                   /\ runs'[r].tasks[u].k = runs[r].tasks[u].k
                   /\ runs'[r].tasks[u].tweets = runs[r].tasks[u].tweets
                \/ HasTaskNext(r, u) /\ runs'[r].tasks[u] = runs[r].tasks[u]
          /\ (HasTask(r, u) /\ runs[r].tasks[u].pc = "text") =>
                \/ SendRecorded(r, u) /\ runs'[r].tasks[u].pc = "pace"
                \/ NothingRecorded(r, u) /\ runs'[r].tasks[u].pc = "pace"
                \/ HasTaskNext(r, u) /\ runs'[r].tasks[u] = runs[r].tasks[u]
          /\ (HasTask(r, u) /\ runs[r].tasks[u].pc = "pace"
              /\ ~(HasTaskNext(r, u) /\ runs'[r].tasks[u] = runs[r].tasks[u])) =>
                LET t == runs[r].tasks[u]
                    stop == IF HasTaskNext(r, u) /\ runs'[r].tasks[u].pc # "done"
                            THEN runs'[r].tasks[u].k ELSE Len(t.tweets) + 1
                IN /\ stop > t.k
                   /\ \A i \in (t.k + 1)..(stop - 1) : ~IsNew(t.tweets[i], sentTweetIds)
                   /\ stop <= Len(t.tweets) =>
                         /\ IsNew(t.tweets[stop], sentTweetIds)
                         /\ runs'[r].tasks[u].pc \in {"photo", "text"}
          /\ (InTask(r, u, "fetch") /\ u \in userBootstrapState) =>
                \A f \in Feeds(u) :
                    ((\E i \in 1..Len(f) : IsNew(f[i], sentTweetIds)) /\ FetchSucceeds(r, u, f)) =>
                        /\ HasTaskNext(r, u)
                        /\ runs'[r].tasks[u].pc \in {"photo", "text"}
                        /\ IsNew(runs'[r].tasks[u].tweets[runs'[r].tasks[u].k], sentTweetIds)]_vars

\* C7 happens: the photo send of an item and its fallback both failed; the
\* task waits out the pacing delay with nothing recorded for the item.
SendFailureSemanticsWitness ==
    \E r \in Callers, u \in Accounts :
        /\ HasTask(r, u)
        /\ runs[r].tasks[u].pc = "pace"
        /\ runs[r].tasks[u].userNewCount = 0
        /\ runs[r].tasks[u].tweets[runs[r].tasks[u].k].media
        /\ notified[runs[r].tasks[u].tweets[runs[r].tasks[u].k].id] = 0
        /\ runs[r].tasks[u].tweets[runs[r].tasks[u].k].id \notin Range(sentTweetIds)
        /\ \A q \in Callers \ {r} : ~runs[q].active

(***************************************************************************)
(* SpecBatch: one check cycle over alice, bob, carol in batches of two, of *)
(* a bot restarted on a persisted bootstrap map and an empty id list.      *)
(***************************************************************************)
InitBatch ==
    /\ \E boot \in SUBSET Accounts :
          BotInit([MAX_CONCURRENT |-> 2, MAX_RETRIES |-> 1,
                   CHECK_INTERVAL_MIN |-> 40000, CHECK_INTERVAL_MAX |-> 40000], <<"alice", "bob", "carol">>,
                  <<>>, boot,
                  IF boot = {} THEN NoDocs
                  ELSE [cache |-> Doc(<<>>), state |-> Doc(boot), users |-> NoDoc])
    /\ PartsIdle

NextBatch ==
    \/ InitialCheck
    \/ TaskStep

SpecBatch == InitBatch /\ [][NextBatch]_vars

\* C8: a failing attempt of fetchTweets for one account changes no id, no
\* bootstrap entry and no notification; the task gives up only after
\* MAX_RETRIES + 1 attempts and then settles as failed without ending the
\* cycle: its siblings in the batch go on untouched, the next batch is
\* launched in full once the batch has settled, and the cycle returns only
\* after its last batch.
FailureIsolation ==
    [][\A r \in Callers, u \in Accounts :
          /\ (HasTask(r, u) /\ HasTaskNext(r, u) /\ runs[r].tasks[u].res = "none"
              /\ runs'[r].tasks[u].res = "failed") =>
                 runs[r].tasks[u].attempt = config.MAX_RETRIES
          /\ (InTask(r, u, "fetch") /\ FetchAttemptFails(r, u)) =>
                LET run == runs[r]
                    t == run.tasks[u]
                    others == DOMAIN run.tasks \ {u}
                IN /\ UNCHANGED <<sentTweetIds, userBootstrapState, notified, usersToMonitor>>
                   /\ t.attempt < config.MAX_RETRIES =>
                         /\ HasTaskNext(r, u)
                         /\ runs'[r].tasks[u] = [t EXCEPT !.attempt = @ + 1]
                   /\ t.attempt = config.MAX_RETRIES =>
                         /\ \A v \in others :
                               HasTaskNext(r, v) => runs'[r].tasks[v] = run.tasks[v]
                         /\ HasTaskNext(r, u) =>
                               /\ runs'[r].tasks[u].pc = "done"
                               /\ runs'[r].tasks[u].res = "failed"
                         /\ (\E v \in others : run.tasks[v].pc # "done") =>
                               /\ runs'[r].active
                               /\ runs'[r].bi = run.bi
                               /\ DOMAIN runs'[r].tasks = DOMAIN run.tasks
                         /\ ~runs'[r].active => run.bi = NumBatches(run.snap)
                         /\ (runs'[r].active /\ runs'[r].bi # run.bi) =>
                               /\ runs'[r].bi = run.bi + 1
                               /\ DOMAIN runs'[r].tasks = Range(Batch(run.snap, run.bi + 1))
                               /\ \A v \in DOMAIN runs'[r].tasks :
                                     runs'[r].tasks[v] = TaskFetch]_vars

\* C8 happens: alice's fetch has failed for good while bob, in the same
\* batch, has had an item delivered and goes on.
FailureIsolationWitness ==
    \E r \in Callers :
        /\ runs[r].active
        /\ DOMAIN runs[r].tasks = {"alice", "bob"}
        /\ runs[r].tasks["alice"].res = "failed"
        /\ runs[r].tasks["bob"].pc = "pace"
        /\ runs[r].tasks["bob"].userNewCount = 1
        /\ notified[3] = 1

(***************************************************************************)
(* SpecOps: the operator adds and removes carol, and presses 'Check Now',  *)
(* while the timers' check cycles run.                                     *)
(***************************************************************************)
InitOps ==
    /\ BotInit([MAX_CONCURRENT |-> 1, MAX_RETRIES |-> 1,
               CHECK_INTERVAL_MIN |-> 40000, CHECK_INTERVAL_MAX |-> 40000], <<"carol">>, <<>>, {}, NoDocs)
    /\ PartsIdle

\* What the operator types at the add prompt.
OpsNames == {"carol", "bad-name", "name_of_16_chars"}

NextOps ==
    \/ InitialCheck
    \/ MainLoop
    \/ CheckNow
    \/ TaskStep
    \/ AddUserButton
    \/ Cancel
    \/ \E n \in OpsNames : NameMessage(n)
    \/ \E u \in Accounts : AddFetchAttemptFails(u)
    \/ \E u \in Accounts : \E f \in Feeds(u) : AddFetchSucceeds(u, f)
    \/ \E u \in Accounts : RemoveUser(u)

SpecOps == InitOps /\ [][NextOps]_vars

\* C10: an account's bootstrap entry, once true, is cleared only by the
\* step that removes the account from the tracked list (no add action, send
\* failure or fetch failure clears it), and it becomes true only in a step
\* in which a fetch for that account returned a result.
BootstrapMonotone ==
    [][\A u \in Accounts :
          /\ (u \in userBootstrapState /\ u \notin userBootstrapState') =>
                /\ u \in Range(usersToMonitor)
                /\ u \notin Range(usersToMonitor')
          /\ (u \notin userBootstrapState /\ u \in userBootstrapState') =>
                \E f \in Feeds(u) :
                    \/ AddFetchSucceeds(u, f)
                    \/ \E r \in Callers : FetchSucceeds(r, u, f)]_vars

\* C10 happens: carol's entry is true, a send for carol has failed, a new
\* add prompt is open, and the entry is still there.
BootstrapMonotoneWitness ==
    /\ "carol" \in userBootstrapState
    /\ userStates = "WAITING_FOR_ADD"
    /\ \E r \in Callers :
          /\ HasTask(r, "carol")
          /\ runs[r].tasks["carol"].pc = "pace"
          /\ runs[r].tasks["carol"].userNewCount = 0

(***************************************************************************)
(* SpecFetch: calls of fetchTweets, in either version, for every           *)
(* MAX_RETRIES up to MaxRetriesChecked, against sources that answer or     *)
(* fail as they please. Every awaited request and delay ends (the requests *)
(* carry timeouts), hence the fairness.                                    *)
(***************************************************************************)
MaxRetriesChecked == 3

InitFetch ==
    /\ \E n \in 0..MaxRetriesChecked :
          BotInit([MAX_CONCURRENT |-> 1, MAX_RETRIES |-> n,
                   CHECK_INTERVAL_MIN |-> 40000, CHECK_INTERVAL_MAX |-> 40000], <<>>, <<>>, {}, NoDocs)
    /\ PartsIdle

NextFetch ==
    \/ \E ver \in Versions, u \in Accounts : FetchTweetsCall(ver, u)
    \/ SourceReturns
    \/ SourceFails
    \/ BackoffDone
    \/ FetchTweetsDone

SpecFetch == InitFetch /\ [][NextFetch]_vars /\ WF_vars(NextFetch)

\* C4: a call of fetchTweets never makes more than MAX_RETRIES + 1
\* attempts; it returns null only when exactly MAX_RETRIES + 1 attempts
\* have been made, each of which called every source fetcher once; and every
\* call returns.
RetryTermination ==
    /\ [](fetch.attempts <= config.MAX_RETRIES + 1)
    /\ []((fetch.pc = "returned" /\ fetch.result = "null") =>
            /\ fetch.attempts = config.MAX_RETRIES + 1
            /\ fetch.calls.nitter = fetch.attempts
            /\ fetch.calls.sotwe = IF fetch.ver = "v12" THEN fetch.attempts ELSE 0)
    /\ [](fetch.pc = "returned" => fetch.result # "none")
    /\ (fetch.pc # "idle") ~> (fetch.pc = "returned")

\* C4 happens: fetchTweets has returned null after four attempts.
RetryTerminationWitness ==
    /\ fetch.pc = "returned"
    /\ fetch.result = "null"
    /\ config.MAX_RETRIES = 3
    /\ fetch.attempts = 4

(***************************************************************************)
(* SpecCache: any calls of set and get on either version of SmartCache, on *)
(* one key more than the cache can hold, while time passes.                *)
(***************************************************************************)
InitCache ==
    /\ BotInit([MAX_CONCURRENT |-> 1, MAX_RETRIES |-> 1,
               CHECK_INTERVAL_MIN |-> 40000, CHECK_INTERVAL_MAX |-> 40000], <<>>, <<>>, {}, NoDocs)
    /\ fetch = NoFetch
    /\ StartupInit([f \in Files |-> NoFile])
    /\ \E ver \in Versions : CacheInit(ver)

NextCache ==
    \/ \E k \in Keys : \E d \in ValuesFor(k) : CacheSet(k, d)
    \/ \E k \in Keys : CacheGet(k)
    \/ Tick

SpecCache == InitCache /\ [][NextCache]_vars

\* C5 as stated: a value written at time T is returned by every get of its
\* key up to T + TTL, and a get after T + TTL returns nothing (unless the key
\* was written again), whatever calls on other keys came in between.
CacheTTLAlways ==
    (got.valid /\ got.wrote.set) =>
        /\ got.at <= got.wrote.t + CacheTTL => (got.hit /\ got.data = got.wrote.data)
        /\ got.at > got.wrote.t + CacheTTL => ~got.hit

\* C5 amended: a value written at time T is returned by every get of its
\* key up to T + TTL unless a set since then evicted the entry for capacity,
\* and a get after T + TTL returns nothing (unless the key was written again).
CacheTTLUnlessEvicted ==
    (got.valid /\ got.wrote.set) =>
        /\ (got.at <= got.wrote.t + CacheTTL /\ ~got.wrote.evicted) =>
              (got.hit /\ got.data = got.wrote.data)
        /\ got.at > got.wrote.t + CacheTTL => ~got.hit

\* C5 happens: the value is read back at the very end of its lifetime from
\* a cache that sets of other keys have filled.
CacheTTLUnlessEvictedWitness ==
    /\ got.valid
    /\ got.hit
    /\ got.at = got.wrote.t + CacheTTL
    /\ Len(cache.entries) = CacheCapacity

\* C6: when set returns the cache holds at most CacheCapacity entries, the
\* entry just written among them; set removes entries only on overflow, and
\* every entry it removes is at least as old as every entry it keeps; the
\* entries kept are unchanged.
CacheCapacityBound ==
    [][\A k \in Keys, d \in Values :
          CacheSet(k, d) =>
              LET before == cache.entries
                  after == cache'.entries
                  removed == (KeysOf(before) \cup {k}) \ KeysOf(after)
              IN /\ Len(after) <= CacheCapacity
                 /\ k \in KeysOf(after)
                 /\ EntryOf(after, k) = [key |-> k, timestamp |-> clock, data |-> d]
                 /\ removed # {} => Cardinality(KeysOf(before) \cup {k}) > CacheCapacity
                 /\ \A r \in removed, q \in KeysOf(after) :
                       EntryOf(before, r).timestamp <= EntryOf(after, q).timestamp
                 /\ \A q \in KeysOf(after) \ {k} : EntryOf(after, q) = EntryOf(before, q)]_vars

\* C6 happens: a set has evicted the key watched, and every entry kept is
\* at least as new as the evicted one was.
CacheCapacityBoundWitness ==
    /\ lastSet.set
    /\ lastSet.evicted
    /\ Watched \notin KeysOf(cache.entries)
    /\ Len(cache.entries) >= CacheCapacity - EvictedAtOnce
    /\ \E i \in 1..Len(cache.entries) : cache.entries[i].timestamp > lastSet.t

(***************************************************************************)
(* SpecLoad: the startup loads on every combination of stored files.       *)
(***************************************************************************)
InitLoad ==
    /\ BotInit([MAX_CONCURRENT |-> 1, MAX_RETRIES |-> 1,
               CHECK_INTERVAL_MIN |-> 40000, CHECK_INTERVAL_MAX |-> 40000], <<>>, <<>>, {}, NoDocs)
    /\ fetch = NoFetch
    /\ CacheInit("v12")
    /\ \E files \in [Files -> StoredFiles] : StartupInit(files)

NextLoad == Startup

SpecLoad == InitLoad /\ [][NextLoad]_vars

\* The shape each file is expected to hold: a list, a list, an object.
ExpectedKind(file) == IF file = "state" THEN "object" ELSE "array"

\* C9: for each of the three persisted documents, a stored JSON value that
\* is not of the expected shape (a list for the account list and the id
\* list, an object for the bootstrap map) loads as the empty default.
LoadShapeValidation ==
    startup.loaded =>
        \A f \in Files :
            (/\ startup.files[f].exists
             /\ startup.files[f].parses
             /\ startup.files[f].value.kind # ExpectedKind(f)) =>
                startup.values[f] = Json(ExpectedKind(f), 0)

(***************************************************************************)
(* SpecAdd: a bot restarted on the tracked list carol, with carol ACTIVE;  *)
(* the operator adds bob, whose timeline holds an item without a           *)
(* recoverable id, while the timers' check cycles run.                     *)
(***************************************************************************)
InitAdd ==
    /\ BotInit([MAX_CONCURRENT |-> 1, MAX_RETRIES |-> 1,
               CHECK_INTERVAL_MIN |-> 40000, CHECK_INTERVAL_MAX |-> 40000], <<"carol">>, <<>>, {"carol"},
               [cache |-> Doc(<<>>), state |-> Doc({"carol"}), users |-> Doc(<<"carol">>)])
    /\ PartsIdle

\* What the operator types at the add prompt.
AddNames == {"bob", "bad-name", "name_of_16_chars"}

NextAdd ==
    \/ InitialCheck
    \/ MainLoop
    \/ TaskStep
    \/ AddUserButton
    \/ \E n \in AddNames : NameMessage(n)
    \/ \E u \in Accounts : AddFetchAttemptFails(u)
    \/ \E u \in Accounts : \E f \in Feeds(u) : AddFetchSucceeds(u, f)

SpecAdd == InitAdd /\ [][NextAdd]_vars

\* C11: an item without a recoverable id is never notified and its missing
\* id never enters sentTweetIds, whatever check cycles and add-account
\* actions have run.
NoIdNeverRecorded ==
    /\ notified[NoId] = 0
    /\ NoId \notin Range(sentTweetIds)

(***************************************************************************)
(* SpecBarrier: the one check cycle of SpecBatch, in batches of two, while *)
(* the operator removes accounts from the tracked list.                    *)
(***************************************************************************)
NextBarrier ==
    \/ InitialCheck
    \/ TaskStep
    \/ \E u \in Accounts : RemoveUser(u)

SpecBarrier == InitBatch /\ [][NextBarrier]_vars

\* The step of invocation r is its task u settling.
TaskSettles(r, u) ==
    \/ FetchAttemptFails(r, u)
    \/ \E f \in Feeds(u) : FetchSucceeds(r, u, f)
    \/ PaceDone(r, u)

\* Every task of the batch in progress has settled, the last of them, u, in
\* this very step and neither from a pending send.
BatchSettles(r) ==
    \A u \in DOMAIN runs[r].tasks :
        \/ runs[r].tasks[u].pc = "done"
        \/ /\ runs[r].tasks[u].pc \in {"fetch", "pace"}
           /\ \A v \in DOMAIN runs[r].tasks \ {u} : runs[r].tasks[v].pc = "done"
           /\ TaskSettles(r, u)

\* C12: an invocation of checkFeeds cuts the tracked list, as it is when the
\* invocation starts, into consecutive slices of MAX_CONCURRENT accounts;
\* the tasks in progress are always those of one slice; the tasks of the
\* next slice start their fetches only in the step in which the last task
\* of the current slice settles (no task of it still fetching, sending or
\* pacing), and the invocation returns only so after its last slice.
BatchBarrier ==
    [][\A r \in Callers :
          /\ runs[r].active =>
                /\ runs[r].bi \in 1..NumBatches(runs[r].snap)
                /\ DOMAIN runs[r].tasks = Range(Batch(runs[r].snap, runs[r].bi))
          /\ (~runs[r].active /\ runs'[r].active) =>
                /\ runs'[r].snap = usersToMonitor
                /\ runs'[r].bi = 1
                /\ runs'[r].tasks = [u \in Range(Batch(usersToMonitor, 1)) |-> TaskFetch]
          /\ (runs[r].active /\ runs'[r].active) =>
                /\ runs'[r].snap = runs[r].snap
                /\ runs'[r].bi \in {runs[r].bi, runs[r].bi + 1}
                /\ runs'[r].bi = runs[r].bi + 1 =>
                      /\ BatchSettles(r)
                      /\ runs'[r].tasks =
                            [u \in Range(Batch(runs[r].snap, runs[r].bi + 1)) |-> TaskFetch]
          /\ (runs[r].active /\ ~runs'[r].active) =>
                /\ runs[r].bi = NumBatches(runs[r].snap)
                /\ BatchSettles(r)]_vars

\* C12 happens: carol, removed from the tracked list since the cycle
\* started, begins her fetch in the second batch, after alice and bob
\* have both settled and a notification of theirs was sent and paced.
BatchBarrierWitness ==
    \E r \in Callers :
        /\ runs[r].active
        /\ runs[r].bi = 2
        /\ runs[r].snap = <<"alice", "bob", "carol">>
        /\ usersToMonitor = <<"alice", "bob">>
        /\ runs[r].tasks["carol"].pc = "fetch"
        /\ runs[r].newCount >= 1

\* The step in which invocation r returns, and whether r has by then set
\* the bootstrap entry of some account (in an earlier step or in this one).
CycleReturns(r) == runs[r].active /\ ~runs'[r].active
CycleInitialized(r) ==
    \/ runs[r].initialized # {}
    \/ \E u \in DOMAIN runs[r].tasks :
          /\ runs[r].tasks[u].pc = "fetch"
          /\ u \notin userBootstrapState
          /\ u \in userBootstrapState'

\* C13: a check cycle that sent a notification or set an account's bootstrap
\* entry writes, in the step in which it returns, the id document as the
\* last min(|sentTweetIds|, MaxSavedIds) ids of sentTweetIds in insertion
\* order and the bootstrap document as userBootstrapState; and the id
\* document never holds more than MaxSavedIds ids.
PersistAfterCycle ==
    [][/\ \A r \in Callers :
             (CycleReturns(r) /\ (runs[r].newCount > 0 \/ CycleInitialized(r))) =>
                 /\ disk'.cache = Doc(LastN(sentTweetIds', MaxSavedIds))
                 /\ disk'.state = Doc(userBootstrapState')
       /\ disk'.cache.exists => Len(disk'.cache.doc) <= MaxSavedIds]_vars

(***************************************************************************)
(* SpecSched: the timers and the check cycles of a bot restarted on the    *)
(* tracked list alice, with alice ACTIVE, under the default intervals and  *)
(* under intervals below the floor. The timers fire (hence the fairness);  *)
(* nothing is assumed of the fetches and sends, which may fail or never    *)
(* end.                                                                    *)
(***************************************************************************)
AliceActive == [cache |-> Doc(<<>>), state |-> Doc({"alice"}), users |-> Doc(<<"alice">>)]

SchedIntervals == {<<40000, 50000>>, <<12000, 24000>>}

InitSched ==
    /\ \E iv \in SchedIntervals :
          BotInit([MAX_CONCURRENT |-> 1, MAX_RETRIES |-> 1,
                   CHECK_INTERVAL_MIN |-> iv[1], CHECK_INTERVAL_MAX |-> iv[2]],
                  <<"alice">>, <<>>, {"alice"}, AliceActive)
    /\ PartsIdle

NextSched ==
    \/ InitialCheck
    \/ MainLoop
    \/ TaskStep

SpecSched == InitSched /\ [][NextSched]_vars /\ WF_vars(InitialCheck) /\ WF_vars(MainLoop)

\* C14: the main loop runs again and again, each run starting a check cycle
\* and scheduling the next run, whichever fetches and sends fail and also
\* while a cycle it started never returns.
SchedulerNeverHalts == []<><<MainLoop>>_vars

\* C14 happens: the main loop has run twice more since it started a cycle
\* that is still in progress and has delivered two notifications.
SchedulerNeverHaltsWitness ==
    /\ runs["loop"].active
    /\ runs["loop"].newCount = 2
    /\ notified[1] + notified[2] = 2
    /\ activityCounter = 0

(***************************************************************************)
(* SpecDelay: SpecSched without its fairness, over more settings of        *)
(* CHECK_INTERVAL_MIN and CHECK_INTERVAL_MAX: equal ones, ones below the   *)
(* floor, and a minimum above the maximum.                                 *)
(***************************************************************************)
DelayIntervals ==
    SchedIntervals \cup {<<40000, 40000>>, <<24000, 28000>>, <<8000, 12000>>, <<50000, 40000>>}

InitDelay ==
    /\ \E iv \in DelayIntervals :
          BotInit([MAX_CONCURRENT |-> 1, MAX_RETRIES |-> 1,
                   CHECK_INTERVAL_MIN |-> iv[1], CHECK_INTERVAL_MAX |-> iv[2]],
                  <<"alice">>, <<>>, {"alice"}, AliceActive)
    /\ PartsIdle

NextDelay ==
    \/ InitialCheck
    \/ MainLoop
    \/ TaskStep

SpecDelay == InitDelay /\ [][NextDelay]_vars

\* The notifications delivered so far.
Notifications == notified[1] + notified[2] + notified[3] + notified[4]
NotificationsNext == notified'[1] + notified'[2] + notified'[3] + notified'[4]

\* C20: with CHECK_INTERVAL_MIN <= CHECK_INTERVAL_MAX every delay the main
\* loop schedules lies between the floor of 20000 ms and
\* max(20000, CHECK_INTERVAL_MAX); it is not below the base interval, which
\* is CHECK_INTERVAL_MIN, less 10000 ms exactly when the activity counter
\* exceeds the threshold; the counter goes up by one with each notification
\* delivered and with nothing else, goes down by one (but not below zero)
\* with each run of the main loop and with nothing else, and is never
\* negative.
AdaptiveReschedule ==
    [][/\ activityCounter >= 0
       /\ activityCounter' >= 0
       /\ NotificationsNext # Notifications =>
             /\ NotificationsNext = Notifications + 1
             /\ activityCounter' = activityCounter + 1
       /\ activityCounter' > activityCounter => NotificationsNext = Notifications + 1
       /\ activityCounter' < activityCounter => MainLoop
       /\ timers'.main # timers.main => MainLoop
       /\ MainLoop =>
             /\ activityCounter' = (IF activityCounter = 0 THEN 0 ELSE activityCounter - 1)
             /\ timers'.main >= 20000
             /\ config.CHECK_INTERVAL_MIN <= config.CHECK_INTERVAL_MAX =>
                   /\ timers'.main <= Max(20000, config.CHECK_INTERVAL_MAX)
                   /\ activityCounter > ActivityThreshold =>
                         timers'.main >= config.CHECK_INTERVAL_MIN - 10000
                   /\ activityCounter <= ActivityThreshold =>
                         timers'.main >= config.CHECK_INTERVAL_MIN]_vars

\* C20 happens: after two notifications the main loop has scheduled its next
\* run at the lowered base interval, 10000 ms below CHECK_INTERVAL_MIN.
AdaptiveRescheduleWitness ==
    /\ config.CHECK_INTERVAL_MIN = 40000
    /\ config.CHECK_INTERVAL_MAX = 50000
    /\ timers.main = 30000
    /\ Notifications = 2
    /\ activityCounter = 1

\* The names of Names that match USERNAME_REGEX, written out.
ValidNames == {"alice", "bob", "carol"}

\* What the add-account handler does with a name typed at the prompt, and
\* with the result of the one fetchTweets call it makes.
AddAccountSteps ==
    /\ \A n \in Names \ ValidNames :
          NameMessage(n) =>
              /\ UNCHANGED <<usersToMonitor, sentTweetIds, userBootstrapState, notified, disk>>
              /\ userStates' = "WAITING_FOR_ADD"
    /\ \A n \in ValidNames :
          NameMessage(n) =>
              IF n \in Range(usersToMonitor)
              THEN UNCHANGED <<usersToMonitor, sentTweetIds, userBootstrapState, notified,
                               disk, adds>>
              ELSE /\ usersToMonitor' = Append(usersToMonitor, n)
                   /\ disk'.users = Doc(usersToMonitor')
                   /\ adds[n] = NoAdd /\ adds'[n] = 0
                   /\ UNCHANGED <<sentTweetIds, userBootstrapState, notified>>
    /\ \A u \in Accounts :
          adds[u] # NoAdd =>
              /\ AddFetchAttemptFails(u) =>
                    UNCHANGED <<usersToMonitor, sentTweetIds, userBootstrapState, notified, disk>>
              /\ \A f \in Feeds(u) :
                    AddFetchSucceeds(u, f) =>
                        /\ UNCHANGED <<usersToMonitor, notified>>
                        /\ adds'[u] = NoAdd
                        /\ IF Len(f) > 0
                           THEN /\ \A i \in 1..Len(f) : f[i].id \in Range(sentTweetIds')
                                /\ \A i \in Range(sentTweetIds) : i \in Range(sentTweetIds')
                                /\ userBootstrapState' = userBootstrapState \cup {u}
                                /\ disk'.cache = Doc(LastN(sentTweetIds', MaxSavedIds))
                                /\ disk'.state = Doc(userBootstrapState')
                           ELSE UNCHANGED <<sentTweetIds, userBootstrapState, disk>>

\* No check cycle has notified, or is about to notify, an item of the result
\* the add-account pass records.
ConcurrentCyclesSilent ==
    \A u \in Accounts :
        adds[u] # NoAdd =>
            \A f \in Feeds(u) :
                AddFetchSucceeds(u, f) =>
                    \A i \in 1..Len(f) :
                        f[i].id # NoId =>
                            /\ notified[f[i].id] = 0
                            /\ \A r \in Callers :
                                  (HasTask(r, u) /\ runs[r].tasks[u].pc \in {"photo", "text"}) =>
                                      runs[r].tasks[u].tweets[runs[r].tasks[u].k].id # f[i].id

\* C15 as stated: at the add prompt an invalid name changes nothing and
\* keeps the prompt open; a valid name already tracked changes nothing; a
\* valid new name is appended to the tracked list and persisted, one fetch
\* follows, and a non-empty result has all its ids added to sentTweetIds
\* and the bootstrap entry set, without a notification for any of its items
\* from the add action or from any check cycle running beside it.
AddAccountSilent == [][AddAccountSteps /\ ConcurrentCyclesSilent]_vars

\* C15 amended: the same, the add action itself sending no notification; a
\* check cycle running beside it is not covered.
AddAccount == [][AddAccountSteps]_vars

\* C15 happens: before any check cycle has started, bob was added, persisted
\* and silently indexed from a result holding item 3.
AddAccountWitness ==
    /\ timers.initial
    /\ usersToMonitor = <<"carol", "bob">>
    /\ disk.users = Doc(usersToMonitor)
    /\ adds["bob"] = NoAdd
    /\ userStates = "none"
    /\ "bob" \in userBootstrapState
    /\ 3 \in Range(sentTweetIds)
    /\ disk.cache = Doc(sentTweetIds)
    /\ notified[3] = 0

\* C16: at startup the tracked list is the configured one exactly when no
\* persisted list exists; a persisted list, the empty list included, is used
\* and the configured list ignored.
PersistedListWins ==
    startup.loaded =>
        /\ ~startup.files.users.exists => startup.tracked = "configured"
        /\ (/\ startup.files.users.exists
            /\ startup.files.users.parses
            /\ IsArray(startup.files.users.value)) => startup.tracked = "persisted"

\* C17: for an ACTIVE account the walk sends an item exactly when the item
\* has an id that is not in sentTweetIds as the walk reaches it; a delivered
\* send adds the id; and an id that is in sentTweetIds is never notified
\* again.
ActiveProcessing ==
    [][/\ \A r \in Callers, u \in Accounts :
             /\ (/\ HasTask(r, u)
                 /\ runs[r].tasks[u].pc \in {"fetch", "pace"}
                 /\ HasTaskNext(r, u)
                 /\ runs'[r].tasks[u].pc \in {"photo", "text"}) =>
                    LET t == runs'[r].tasks[u]
                        passed == IF runs[r].tasks[u].pc = "pace" THEN runs[r].tasks[u].k ELSE 0
                    IN /\ u \in userBootstrapState
                       /\ t.k > passed
                       /\ IsNew(t.tweets[t.k], sentTweetIds)
                       /\ \A i \in (passed + 1)..(t.k - 1) : ~IsNew(t.tweets[i], sentTweetIds)
             /\ (SendPhotoOk(r, u) \/ SendTextOk(r, u)) =>
                    runs[r].tasks[u].tweets[runs[r].tasks[u].k].id \in Range(sentTweetIds')
       /\ \A i \in Ids \ {NoId} :
             i \in Range(sentTweetIds) => notified'[i] = notified[i]]_vars

\* C18: an attempt of fetchTweets calls the source fetchers in the fixed
\* order (v12.1: Sotwe, then Nitter; v13.1: Nitter alone), the next one only
\* after the one before it returned null in the same attempt; the first
\* result a fetcher returns is what fetchTweets returns, and no fetcher is
\* called and no attempt made after it.
SourcePriority ==
    /\ [](fetch.pc # "idle" =>
            /\ fetch.ver = "v13" => fetch.calls.sotwe = 0 /\ fetch.calls.nitter = fetch.attempts
            /\ fetch.ver = "v12" =>
                  /\ fetch.calls.sotwe = fetch.attempts
                  /\ fetch.calls.nitter \in {fetch.attempts - 1, fetch.attempts}
                  /\ (fetch.pc = "returned" /\ fetch.result = "sotwe") =>
                        fetch.calls.nitter = fetch.attempts - 1
                  /\ (fetch.pc = "returned" /\ fetch.result = "nitter") =>
                        fetch.calls.nitter = fetch.attempts
            /\ fetch.pc = "returned" => fetch.result \in {"sotwe", "nitter", "null"}
            /\ fetch.result = "sotwe" => fetch.ver = "v12")
    /\ [][/\ (fetch.pc = "source" /\ fetch'.pc = "returned" /\ fetch'.result # "null") =>
                /\ fetch'.calls = fetch.calls
                /\ fetch'.attempts = fetch.attempts
                /\ fetch.calls[fetch'.result] = fetch.attempts
          /\ (fetch.pc = "source" /\ fetch'.calls.nitter > fetch.calls.nitter
              /\ fetch.ver = "v12") =>
                /\ fetch.calls.sotwe = fetch.attempts
                /\ fetch'.attempts = fetch.attempts
          /\ fetch.pc = "returned" => fetch' = NoFetch]_vars

\* C18 happens: in its second attempt the v12.1 orchestrator got null from
\* Sotwe and returns the result of Nitter.
SourcePriorityWitness ==
    /\ fetch.pc = "returned"
    /\ fetch.ver = "v12"
    /\ fetch.result = "nitter"
    /\ fetch.attempts = 2
    /\ fetch.calls.sotwe = 2
    /\ fetch.calls.nitter = 2

(***************************************************************************)
(* The source fetchers with the cache (src/index.js:207-274,               *)
(* src/unnamed/part_000:190-225), one outbound request at a time. A fetch  *)
(* result is one of Values; the cache key of a source and an account is    *)
(* the pair of them.                                                       *)
(***************************************************************************)
\* `sotwe_${username}`, `nitter_${username}`.
cacheKey(source, username) == <<source, username>>

\* The requests a fetcher makes at most: one to Sotwe; one to each of the
\* mirrors picked by .slice(0, 5) (src/index.js:243), .slice(0, 8)
\* (part_000:195).
Candidates(ver, source) ==
    IF source = "sotwe" THEN 1 ELSE IF ver = "v12" THEN 5 ELSE 8

NoFetcher ==
    [source |-> "sotwe", user |-> "alice", pc |-> "idle", mirror |-> 0, requests |-> 0,
     result |-> "null"]

\* A lookup that never finds anything.
getMisses(entries, key, now) == [hit |-> FALSE, data |-> "null", entries |-> entries]

\* cache.get(key) at time now: whether it hit, what it returned, and the Map
\* it leaves (src/index.js:53-66, part_000:68-77).
get(entries, key, now) ==
    IF key \notin KeysOf(entries)
    THEN [hit |-> FALSE, data |-> "null", entries |-> entries]
    ELSE IF Expired(now, EntryOf(entries, key).timestamp)
         THEN [hit |-> FALSE, data |-> "null", entries |-> MapDelete(entries, {key})]
         ELSE [hit |-> TRUE, data |-> EntryOf(entries, key).data, entries |-> entries]

\* The Map cache.set(key, data) leaves at time now (src/index.js:68-77,
\* part_000:79-85).
set(ver, entries, key, data, now) ==
    LET entries1 == MapSet(entries, [key |-> key, timestamp |-> now, data |-> data])
        sorted == SortByTimestamp(entries1)
        oldest == IF Len(entries1) > CacheCapacity
                  THEN KeysOf(SubSeq(sorted, 1, Min(Len(sorted), EvictCount(ver, Len(entries1)))))
                  ELSE {}
    IN MapDelete(entries1, oldest)

\* fetchSotwe(username) / fetchNitter(username) up to its first await: the
\* cached result is returned, or the first request goes out
\* (src/index.js:208-213, 238-246, part_000:191-198).
FetcherCall(source, username) ==
    /\ fetch.pc = "idle"
    /\ source \in Range(Sources(cache.ver))
    /\ LET cached == get(cache.entries, cacheKey(source, username), clock) IN
          /\ cache' = [cache EXCEPT !.entries = cached.entries]
          /\ fetch' = IF cached.hit
                      THEN [NoFetcher EXCEPT !.source = source, !.user = username,
                                             !.pc = "fetched", !.result = cached.data]
                      ELSE [NoFetcher EXCEPT !.source = source, !.user = username,
                                             !.pc = "request", !.mirror = 1, !.requests = 1]
    /\ UNCHANGED <<clock, lastSet, got, startup>>
    /\ UNCHANGED botVars

\* The request answered with usable data: the result is cached and returned
\* (src/index.js:216-229, 249-264, part_000:199-217).
RequestYields(data) ==
    /\ fetch.pc = "request"
    /\ cache' = [cache EXCEPT !.entries = set(cache.ver, @, cacheKey(fetch.source, fetch.user),
                                              data, clock)]
    /\ fetch' = [fetch EXCEPT !.pc = "fetched", !.result = data]
    /\ UNCHANGED <<clock, lastSet, got, startup>>
    /\ UNCHANGED botVars

\* The request failed, timed out or brought nothing usable: the catch
\* swallows it and the next mirror is asked, or none is left and the
\* fetcher returns null (src/index.js:231-234, 266-273, part_000:220-224).
RequestFails ==
    /\ fetch.pc = "request"
    /\ fetch' = IF fetch.mirror < Candidates(cache.ver, fetch.source)
                THEN [fetch EXCEPT !.mirror = @ + 1, !.requests = @ + 1]
                ELSE [fetch EXCEPT !.pc = "fetched", !.result = "null"]
    /\ UNCHANGED <<cache, clock, lastSet, got, startup>>
    /\ UNCHANGED botVars

\* The caller has taken the fetcher's result.
FetcherDone ==
    /\ fetch.pc = "fetched"
    /\ fetch' = NoFetcher
    /\ UNCHANGED <<cache, clock, lastSet, got, startup>>
    /\ UNCHANGED botVars

(***************************************************************************)
(* SpecSource: calls of the source fetchers of either version for alice,   *)
(* against mirrors that answer or fail as they please, while time passes.  *)
(***************************************************************************)
InitSource ==
    /\ BotInit([MAX_CONCURRENT |-> 1, MAX_RETRIES |-> 1,
                CHECK_INTERVAL_MIN |-> 40000, CHECK_INTERVAL_MAX |-> 40000],
               <<>>, <<>>, {}, NoDocs)
    /\ fetch = NoFetcher
    /\ StartupInit([f \in Files |-> NoFile])
    /\ \E ver \in Versions : CacheInit(ver)

NextSource ==
    \/ \E source \in {"sotwe", "nitter"} : FetcherCall(source, "alice")
    \/ \E data \in Values : RequestYields(data)
    \/ RequestFails
    \/ FetcherDone
    \/ Tick

SpecSource == InitSource /\ [][NextSource]_vars

\* The entry of the fetcher's key is there and not older than the TTL.
Fresh(key) ==
    /\ key \in KeysOf(cache.entries)
    /\ clock - EntryOf(cache.entries, key).timestamp <= CacheTTL

\* C19: a fetcher called while the cache holds a fresh entry under its key
\* returns that entry's result without a request, and otherwise makes its
\* first request; the cache is written only when a request yielded a
\* result, under the fetcher's key and with that result, so null is never
\* cached; a failed request leads to the next candidate and changes
\* nothing else; and the fetcher returns null only after its last candidate
\* failed, having asked each of them once.
FetcherAndCache ==
    [][/\ \A i \in 1..Len(cache.entries) : cache.entries[i].data \in Values
       /\ fetch.pc \in {"idle", "request", "fetched"}
       /\ (fetch.pc = "idle" /\ fetch'.pc # "idle") =>
             LET key == cacheKey(fetch'.source, fetch'.user) IN
             IF Fresh(key)
             THEN /\ fetch'.pc = "fetched"
                  /\ fetch'.result = EntryOf(cache.entries, key).data
                  /\ fetch'.requests = 0
                  /\ cache' = cache
             ELSE /\ fetch'.pc = "request"
                  /\ fetch'.requests = 1
                  /\ key \notin KeysOf(cache'.entries)
       /\ \A key \in KeysOf(cache'.entries) :
             (key \notin KeysOf(cache.entries)
              \/ EntryOf(cache'.entries, key) # EntryOf(cache.entries, key)) =>
                 /\ fetch.pc = "request"
                 /\ fetch'.pc = "fetched"
                 /\ key = cacheKey(fetch.source, fetch.user)
                 /\ fetch'.result \in Values
                 /\ EntryOf(cache'.entries, key) =
                       [key |-> key, timestamp |-> clock, data |-> fetch'.result]
       /\ (fetch.pc = "request" /\ fetch'.pc = "fetched" /\ fetch'.result # "null") =>
             /\ Fresh(cacheKey(fetch.source, fetch.user))'
             /\ EntryOf(cache'.entries, cacheKey(fetch.source, fetch.user)).data = fetch'.result
       /\ (fetch.pc = "request" /\ fetch'.pc = "request" /\ fetch' # fetch) =>
             /\ fetch'.mirror = fetch.mirror + 1
             /\ fetch'.requests = fetch.requests + 1
             /\ fetch'.mirror <= Candidates(cache.ver, fetch.source)
             /\ cache' = cache
       /\ (fetch.pc = "request" /\ fetch'.pc = "fetched" /\ fetch'.result = "null") =>
             /\ fetch.requests = Candidates(cache.ver, fetch.source)
             /\ cache' = cache]_vars

\* C19 happens: fetchNitter of v12.1 returns alice's cached result without
\* a request, in the last moment of the entry's life.
FetcherAndCacheWitness ==
    /\ cache.ver = "v12"
    /\ fetch.pc = "fetched"
    /\ fetch.source = "nitter"
    /\ fetch.requests = 0
    /\ fetch.result \in Values
    /\ clock = EntryOf(cache.entries, cacheKey("nitter", "alice")).timestamp + CacheTTL

\* C21: every account with a bootstrap entry is on the tracked list: once
\* the remove action for an account has run, the account has no entry until
\* it is added again, also while a check cycle started before the removal
\* is still fetching it.
BootstrapKeysTracked ==
    userBootstrapState \subseteq Range(usersToMonitor)

\* The step in which the task of account u in invocation r hands an item to
\* bot.sendPhoto or bot.sendMessage (src/index.js:342-347): the task comes
\* from its fetch or from a pacing delay and now awaits a send.
SendStarts(r, u) ==
    /\ HasTask(r, u)
    /\ HasTaskNext(r, u)
    /\ runs[r].tasks[u].pc \in {"fetch", "pace"}
    /\ runs'[r].tasks[u].pc \in {"photo", "text"}

\* C22: once the remove action for an account has run, no notification for
\* an item of the account is sent until the account is added again: a check
\* cycle, also one that took its snapshot of the tracked list before the
\* removal, starts a send for an account only while it is tracked.
NoNotificationAfterRemoval ==
    [][\A r \in Callers, u \in Accounts :
          SendStarts(r, u) => u \in Range(usersToMonitor)]_vars

\* The account tasks in flight: those of the invocations in progress that
\* await a fetch, a send or a pacing delay (src/index.js:319-367).
InFlight ==
    {<<r, u>> \in Callers \X Accounts : HasTask(r, u) /\ runs[r].tasks[u].pc # "done"}

\* C23: at every moment at most MAX_CONCURRENT account tasks are in flight
\* (fetching, sending or pacing), also while the startup check, the main
\* loop and a manual check have invocations of checkFeeds in progress at
\* the same time.
OutboundConcurrencyBound ==
    Cardinality(InFlight) <= config.MAX_CONCURRENT

(***************************************************************************)
(* SpecFrame: the startup check of a bot restarted on the tracked list     *)
(* alice and a persisted bootstrap map, while the operator adds bob and    *)
(* removes accounts.                                                       *)
(***************************************************************************)
InitFrame ==
    /\ \E boot \in SUBSET {"alice"} :
          BotInit([MAX_CONCURRENT |-> 2, MAX_RETRIES |-> 0,
                   CHECK_INTERVAL_MIN |-> 40000, CHECK_INTERVAL_MAX |-> 40000],
                  <<"alice">>, <<>>, boot,
                  [cache |-> Doc(<<>>), state |-> Doc(boot), users |-> Doc(<<"alice">>)])
    /\ PartsIdle

NextFrame ==
    \/ InitialCheck
    \/ TaskStep
    \/ AddUserButton
    \/ \E n \in AddNames : NameMessage(n)
    \/ \E u \in Accounts : AddFetchAttemptFails(u)
    \/ \E u \in Accounts : \E f \in Feeds(u) : AddFetchSucceeds(u, f)
    \/ \E u \in Accounts : RemoveUser(u)

SpecFrame == InitFrame /\ [][NextFrame]_vars

\* s is an initial part of t.
IsPrefix(s, t) == Len(s) <= Len(t) /\ SubSeq(t, 1, Len(s)) = s

\* C25: no step (of a check cycle, an add, a removal, a failed send, a
\* save) takes an id out of the in-memory sentTweetIds, which only grows at
\* its end, the cut to MaxSavedIds ids being made in the written document
\* only; and the step that removes an account changes, in memory, the
\* tracked list and that account's bootstrap entry and nothing else.
DedupAppendOnly ==
    [][/\ IsPrefix(sentTweetIds, sentTweetIds')
       /\ \A u \in Accounts :
             RemoveUser(u) =>
                 /\ sentTweetIds' = sentTweetIds
                 /\ userBootstrapState' \cup {u} = userBootstrapState \cup {u}
                 /\ u \notin userBootstrapState'
                 /\ usersToMonitor' = Without(usersToMonitor, u)
                 /\ UNCHANGED <<activityCounter, userStates, runs, adds, timers, notified>>]_vars

\* C25 happens: sentTweetIds holds more ids than the written document may,
\* the document holds its last MaxSavedIds ids only, and alice has been
\* removed while bob's bootstrap entry stays.
DedupAppendOnlyWitness ==
    /\ Len(sentTweetIds) > MaxSavedIds
    /\ disk.cache = Doc(LastN(sentTweetIds, MaxSavedIds))
    /\ "alice" \notin Range(usersToMonitor)
    /\ "bob" \in userBootstrapState

(***************************************************************************)
(* SpecRestart: the process is stopped, by SIGINT or without notice, and   *)
(* started again on the documents it left, while its startup check runs    *)
(* and the operator removes accounts. USERS_TO_MONITOR, the list of the    *)
(* environment, is the same at every start.                                *)
(***************************************************************************)
\* The document as a file found at startup: the process writes its
\* documents with JSON.stringify (src/index.js:179-185), so one that exists
\* parses, to an array or an object of as many elements as were written.
Found(file) ==
    IF disk[file].exists
    THEN [exists |-> TRUE, parses |-> TRUE,
          value |-> Json(IF file = "state" THEN "object" ELSE "array",
                         IF file = "state" THEN Cardinality(disk.state.doc)
                         ELSE Len(disk[file].doc))]
    ELSE NoFile

\* new Set(loadedCache) (src/index.js:189-190): the elements of the array in
\* their order, each once.
NewSet(array) == SetAddAll(<<>>, array)

\* The values the module's initialisation gives the three variables
\* (src/index.js:187-201).
LoadedIds == IF disk.cache.exists THEN NewSet(disk.cache.doc) ELSE <<>>
LoadedState == IF disk.state.exists THEN disk.state.doc ELSE {}
LoadedUsers ==
    IF TrackedFrom(loadJson("users", Found("users"))) = "configured"
    THEN config.USERS_TO_MONITOR
    ELSE disk.users.doc

\* The process is running: the main loop's timer is pending, as it is from
\* the last line of the startup on (src/index.js:531, 533).
Running == timers.main # 0

\* process.exit, or the process killed: every pending task, handler and
\* timer is gone.
Exit ==
    /\ runs' = [r \in Callers |-> NoRun]
    /\ adds' = [u \in Accounts |-> NoAdd]
    /\ timers' = [initial |-> FALSE, main |-> 0]
    /\ userStates' = "none"

\* process.on('SIGINT') (src/index.js:538-545).
Sigint ==
    /\ Running
    /\ disk' = [cache |-> Doc(LastN(sentTweetIds, MaxSavedIds)),
                state |-> Doc(userBootstrapState),
                users |-> Doc(usersToMonitor)]
    /\ Exit
    /\ UNCHANGED <<config, usersToMonitor, sentTweetIds, userBootstrapState,
                   activityCounter, notified>>
    /\ UNCHANGED partVars

\* The process ends without its handler running (a crash, SIGKILL).
Kill ==
    /\ Running
    /\ Exit
    /\ UNCHANGED <<config, usersToMonitor, sentTweetIds, userBootstrapState,
                   activityCounter, disk, notified>>
    /\ UNCHANGED partVars

\* The next start of the process, at a later time and within the time the
\* model covers: the module's initialisation (src/index.js:187-201, 305-306,
\* 404, 522, 533). Until then the variables keep the values the process had
\* when it ended.
Restart ==
    /\ ~Running
    /\ clock < MaxTime
    /\ clock' = clock + 1
    /\ sentTweetIds' = LoadedIds
    /\ userBootstrapState' = LoadedState
    /\ usersToMonitor' = LoadedUsers
    /\ activityCounter' = 0
    /\ timers' = [initial |-> TRUE, main |-> 8000]
    /\ UNCHANGED <<config, userStates, runs, adds, disk, notified>>
    /\ UNCHANGED <<fetch, cache, lastSet, got, startup>>

\* USERS_TO_MONITOR (src/index.js:200).
RestartLists == {<<>>, <<"alice", "bob">>}

\* The first start shown finds alice and bob tracked, alice ACTIVE, and the
\* id of an account tracked earlier in the id document.
InitRestart ==
    /\ \E env \in RestartLists :
          BotInit([MAX_CONCURRENT |-> 2, MAX_RETRIES |-> 0,
                   CHECK_INTERVAL_MIN |-> 40000, CHECK_INTERVAL_MAX |-> 40000,
                   USERS_TO_MONITOR |-> env],
                  <<"alice", "bob">>, <<4>>, {"alice"},
                  [cache |-> Doc(<<4>>), state |-> Doc({"alice"}),
                   users |-> Doc(<<"alice", "bob">>)])
    /\ PartsIdle

NextRestart ==
    \/ InitialCheck
    \/ TaskStep
    \/ \E u \in Accounts : Running /\ RemoveUser(u)
    \/ Sigint
    \/ Kill
    \/ Restart

SpecRestart == InitRestart /\ [][NextRestart]_vars

\* The documents hold what a save of the process's state writes
\* (src/index.js:374-375, 540-541).
StateSaved ==
    /\ disk.cache = Doc(LastN(sentTweetIds, MaxSavedIds))
    /\ disk.state = Doc(userBootstrapState)

\* C24: a process that has saved its state (at the end of a check cycle or
\* on SIGINT) and is then started again from the documents has the
\* userBootstrapState and the tracked list it had before, and as
\* sentTweetIds the last MaxSavedIds ids of the one it had, in their order:
\* all of it when it held no more than MaxSavedIds ids, and otherwise all
\* but its oldest ids beyond those.
RestartIdempotent ==
    [][(Restart /\ StateSaved) =>
          /\ sentTweetIds' = LastN(sentTweetIds, MaxSavedIds)
          /\ userBootstrapState' = userBootstrapState
          /\ usersToMonitor' = usersToMonitor]_vars

====
